---------------------------- MODULE Spec2Model ----------------------------
(***************************************************************************)
(* Document / version / comment workflow of the leyesabiertas core API.    *)
(*                                                                         *)
(* The route handlers of src/api/document.js are modelled as processes     *)
(* that run in request slots.  A handler is an async function: it runs     *)
(* without interruption up to its next `await` on the persistent store,    *)
(* so every awaited store call is one atomic step and other handlers may   *)
(* run between two steps.  An awaited read of the custom form or of the    *)
(* community (data no handler writes) is folded into the neighbouring      *)
(* step, except where the code reads the clock after it.  A field of the   *)
(* request body is drawn when the handler first reads it: the value is     *)
(* fixed by the request, and no step depends on it before that read.       *)
(*                                                                         *)
(* The db-api modules (Document, DocumentVersion, Comment, Like,           *)
(* CustomForm, Community) are not part of the sources; their operations    *)
(* are modelled from the design document and are named Document_create,    *)
(* DocumentVersion_create, ... below.  So is the notifier service that     *)
(* src/services/notifier.js posts to: the posts it has not answered yet    *)
(* are the outbox, and its answer to a post is a step of its own.          *)
(*                                                                         *)
(* The handlers that write are served by every specification; the reads    *)
(* (GET /documents, /my-documents, /documents/:id) by SpecSerialReads.     *)
(* The body of a response is kept as far as it names documents: their ids  *)
(* and `closed`, and isAuthor.                                             *)
(***************************************************************************)
EXTENDS Integers, Sequences, FiniteSets, Bags, TLC

(***************************************************************************)
(* Bounds of the model.                                                    *)
(***************************************************************************)
\* requests received in a run: served concurrently, served one at a time,
\* and served one at a time in the longer runs
MaxRequests == 3
MaxSerialRequests == 3
MaxLongRequests == 4
\* last value of the clock
MaxTime == 2

(***************************************************************************)
(* Values.                                                                 *)
(***************************************************************************)
\* the users that send requests, the request slots of the server, and the
\* document and comment ids that requests name
Users == {1, 2}
Slots == {1, 2}
DocIds == {1, 2}
CommentIds == {1}

\* closingDate of a content: NoDate when the content carries none
NoDate == 0
ClosingDates == {NoDate, 1}
Contents == [closingDate : ClosingDates]
\* the contents of the updates that amend a version: they may move the
\* closingDate further
AmendedContents == [closingDate : ClosingDates \cup {2}]

\* community.permissions.accountable.documentCreationLimit
documentCreationLimit == 1

\* the custom forms of the installation: slug -> commentable fields
FormSlugs == {"form"}
SlugInputs == {"form", "nope"}
FieldInputs == {"brief", "title"}
allowComments(slug) == IF slug = "form" THEN {"brief"} ELSE {}

\* the optional `published` and `closed` of an update request body
UpdatePatches == {[published |-> "undefined", closed |-> "undefined"],
                  [published |-> "true", closed |-> "true"]}
\* optional decoration of a comment request body
CommentDecorationInputs == {"undefined", "d1"}
ReplyInputs == {"thanks"}

\* `contributions` of an update request: lists of comment ids
RECURSIVE SetToSeq(_)
SetToSeq(S) ==
  IF S = {} THEN << >>
  ELSE LET m == CHOOSE x \in S : \A y \in S : x <= y
       IN  <<m>> \o SetToSeq(S \ {m})
ContributionInputs == {SetToSeq(S) : S \in SUBSET CommentIds}
\* `decorations` of an update request: the ids of the comments to re-anchor
DecorationInputs == {SetToSeq(S) : S \in SUBSET CommentIds}

Range(f) == {f[i] : i \in DOMAIN f}

(***************************************************************************)
(* State.                                                                  *)
(***************************************************************************)
VARIABLES
  documents,   \* Document collection, a document's _id is its index
  versions,    \* DocumentVersion collection, _id is the index
  comments,    \* Comment collection, _id is the index
  likes,       \* Like collection, _id is the index; a removed like leaves
               \* its _id unused
  outbox,      \* bag of the notification events posted to the notifier and
               \* not yet answered
  scheduled,   \* notifier service: the closing date it holds per document
  log,         \* the line notifier.js has logged last
  now,         \* the clock read by `new Date()`
  reqs,        \* request slots: the handler running in each and its locals
  last,        \* the response sent last: the request and its outcome
  sent,        \* the body of the response sent last
  budget       \* number of requests still to come

vars == <<documents, versions, comments, likes, outbox, scheduled, log, now,
          reqs, last, sent, budget>>

\* the state on the side of the notifier service and the log
delivery == <<scheduled, log>>

NoVersion == [_id |-> 0, version |-> 0, content |-> [closingDate |-> NoDate]]
\* what Document.get resolves to when nothing matches
NullDocument == [_id |-> 0, author |-> 0, customForm |-> "",
                 published |-> FALSE, currentVersion |-> NoVersion]

NoBody == [customForm |-> "", content |-> [closingDate |-> NoDate],
           published |-> "undefined", closed |-> "undefined",
           decorations |-> << >>, contributions |-> << >>,
           field |-> "", decoration |-> "undefined", reply |-> ""]

IdleReq == [op |-> "none", pc |-> "idle", user |-> 0,
            id |-> 0, idComment |-> 0, body |-> NoBody,
            document |-> NullDocument, versionCreated |-> 0, like |-> 0]

\* a slot the server does not use
OffReq == [IdleReq EXCEPT !.pc = "off"]

\* the body of a response that carries no document: an error, a comment,
\* a like
NoSent == [results |-> {}, isAuthor |-> FALSE]

\* a document in the body of a response: its id and its `closed`
DocumentJSON(id, closed) == [_id |-> id, closed |-> closed]

\* nothing logged yet
NoLog == [level |-> "none",
          payload |-> [type |-> "none", ref |-> 0, closingDate |-> NoDate]]

InitStore ==
  /\ documents = << >>
  /\ versions = << >>
  /\ comments = << >>
  /\ likes = << >>
  /\ outbox = EmptyBag
  /\ scheduled = [d \in DocIds |-> NoDate]
  /\ log = NoLog
  /\ now = 1
  /\ last = [op |-> "none", user |-> 0, id |-> 0, res |-> "none"]
  /\ sent = NoSent

\* the server handles as many requests at once as there are slots
Init ==
  /\ InitStore
  /\ reqs = [s \in Slots |-> IdleReq]
  /\ budget = MaxRequests

\* the server handles one request at a time
InitSerial ==
  /\ InitStore
  /\ reqs = [s \in Slots |-> IF s = 1 THEN IdleReq ELSE OffReq]
  /\ budget = MaxSerialRequests

InitSerialLong ==
  /\ InitStore
  /\ reqs = [s \in Slots |-> IF s = 1 THEN IdleReq ELSE OffReq]
  /\ budget = MaxLongRequests

(***************************************************************************)
(* The persistent store (db-api).                                          *)
(***************************************************************************)
DocumentExists(id) == id \in 1..Len(documents)
CommentExists(id) == id \in 1..Len(comments)

\* Document.get({ _id }): the document with author and currentVersion
\* populated, or null
Document_get(id) ==
  IF DocumentExists(id)
  THEN [_id |-> id,
        author |-> documents[id].author,
        customForm |-> documents[id].customForm,
        published |-> documents[id].published,
        currentVersion |->
          [_id |-> documents[id].currentVersion,
           version |-> versions[documents[id].currentVersion].version,
           content |-> versions[documents[id].currentVersion].content]]
  ELSE NullDocument

\* Document.countAuthorDocuments(userId): every document of the author,
\* published or not
Document_countAuthorDocuments(user) ==
  Cardinality({i \in 1..Len(documents) : documents[i].author = user})

\* CustomForm.get: the form, or null
CustomForm_get(slug) == IF slug \in FormSlugs THEN slug ELSE ""

\* Document.create(body, customForm): the Document and its initial Version
\* are written together
Document_create_documents(body, customForm) ==
  Append(documents, [author |-> body.author, customForm |-> customForm,
                     published |-> FALSE, closed |-> FALSE,
                     currentVersion |-> Len(versions) + 1,
                     commentsCount |-> 0])
Document_create_versions(body, customForm) ==
  Append(versions, [document |-> Len(documents) + 1, version |-> 1,
                    content |-> body.content, contributions |-> << >>])

\* DocumentVersion.create(data, customForm): stores the version as given
DocumentVersion_create(data) == Append(versions, data)

\* DocumentVersion.update(id, content, customForm): replaces the content
DocumentVersion_update(id, content) ==
  [versions EXCEPT ![id].content = content]

\* Document.update(id, data): sets the fields that data defines
Document_update(id, data) ==
  [documents EXCEPT ![id] =
     [@ EXCEPT
        !.published = IF data.published = "undefined" THEN @
                      ELSE data.published = "true",
        !.closed = IF data.closed = "undefined" THEN @
                   ELSE data.closed = "true",
        !.currentVersion = IF data.currentVersion = 0 THEN @
                           ELSE data.currentVersion]]

\* Document.addComment({ _id }): increments commentsCount
Document_addComment(id) ==
  IF DocumentExists(id)
  THEN [documents EXCEPT ![id].commentsCount = @ + 1]
  ELSE documents

\* Comment.create(body): stored unresolved and without reply
Comment_create(body) ==
  Append(comments, [user |-> body.user, document |-> body.document,
                    version |-> body.version, field |-> body.field,
                    decoration |-> body.decoration,
                    resolved |-> FALSE, reply |-> ""])

\* Comment.getAll({ _id: { $in: ids } }): the ids of the comments found
Comment_getAll(ids) == {i \in 1..Len(comments) : i \in Range(ids)}

\* Comment.resolve({ _id })
Comment_resolve(id) ==
  IF CommentExists(id) THEN [comments EXCEPT ![id].resolved = TRUE]
  ELSE comments

\* Comment.reply({ _id }, reply)
Comment_reply(id, reply) ==
  IF CommentExists(id) THEN [comments EXCEPT ![id].reply = reply]
  ELSE comments

\* a removed like
NoLike == [user |-> 0, comment |-> 0]

\* Like.get({ user, comment }): the _id of the like of the pair, or null (0)
Like_get(query) ==
  IF \E i \in 1..Len(likes) : likes[i] = query
  THEN CHOOSE i \in 1..Len(likes) :
         /\ likes[i] = query
         /\ \A j \in 1..Len(likes) : likes[j] = query => i <= j
  ELSE 0

\* Like.create({ user, comment }): never stores a second like of a pair
\* variant: stores what it is given
Like_create_insert(data) == Append(likes, data)
Like_create(data) ==
  IF Like_get(data) # 0 THEN likes ELSE Append(likes, data)

\* Like.remove(_id)
Like_remove(id) ==
  IF id \in 1..Len(likes) THEN [likes EXCEPT ![id] = NoLike] ELSE likes

\* Comment.updateDecorations(versionId, decorations): re-anchors the
\* comments of that version that the payload names
Comment_updateDecorations(versionId, decorations) ==
  [i \in 1..Len(comments) |->
     IF comments[i].version = versionId /\ i \in Range(decorations)
     THEN [comments[i] EXCEPT !.decoration = "moved"]
     ELSE comments[i]]

(***************************************************************************)
(* services/notifier.js: both functions post the payload to the notifier   *)
(* and return without waiting for the outcome.                             *)
(***************************************************************************)
CommentEvent(notificationType, commentId) ==
  [type |-> notificationType, ref |-> commentId, closingDate |-> NoDate]
DocumentClosesEvent(documentId, closingDate) ==
  [type |-> "document-closes", ref |-> documentId,
   closingDate |-> closingDate]

sendCommentNotification(box, notificationType, commentId) ==
  box (+) SetToBag({CommentEvent(notificationType, commentId)})
setDocumentClosesNotification(box, documentId, closingDate) ==
  box (+) SetToBag({DocumentClosesEvent(documentId, closingDate)})

RECURSIVE sendCommentNotifications(_, _, _)
sendCommentNotifications(box, notificationType, ids) ==
  IF ids = {} THEN box
  ELSE LET c == CHOOSE x \in ids : TRUE
       IN  sendCommentNotifications(
             sendCommentNotification(box, notificationType, c),
             notificationType, ids \ {c})

\* `.then(log.info)` and `.catch(log.error)` of a post
logInfo(payload) == [level |-> "info", payload |-> payload]
logError(payload) == [level |-> "error", payload |-> payload]

\* what is left in flight when the post of payload has failed: the catch
\* handler logs and the post is over
\* variant: the post is made again
catchError_retry(box, payload) == box
catchError(box, payload) == box (-) SetToBag({payload})

\* the notifier service on /set-document-closes: it holds the date of the
\* request it handled last for the document
Notifier_setDocumentCloses(payload) ==
  IF payload.type = "document-closes" /\ payload.ref \in DOMAIN scheduled
  THEN [scheduled EXCEPT ![payload.ref] = payload.closingDate]
  ELSE scheduled

(***************************************************************************)
(* Request slots.                                                          *)
(***************************************************************************)
Free(s) == reqs[s].pc = "idle"
InFlight(s) == reqs[s].pc \notin {"idle", "off"}

\* a request arrives and its handler starts as r in the free slot s
Receive(s, r) ==
  /\ Free(s)
  /\ budget > 0
  /\ reqs' = [reqs EXCEPT ![s] = r]
  /\ budget' = budget - 1
  /\ UNCHANGED <<last, sent>>
\* the handler in slot s sends response res with the body and ends
Reply(s, res, body) ==
  /\ reqs' = [reqs EXCEPT ![s] = IdleReq]
  /\ last' = [op |-> reqs[s].op, user |-> reqs[s].user, id |-> reqs[s].id,
              res |-> res]
  /\ sent' = body
  /\ UNCHANGED budget
Respond(s, res) == Reply(s, res, NoSent)
\* the handler in slot s goes on as r, suspended at its next await
Await(s, r) ==
  /\ reqs' = [reqs EXCEPT ![s] = r]
  /\ UNCHANGED <<last, sent, budget>>
Goto(s, pc) == Await(s, [reqs[s] EXCEPT !.pc = pc])

(***************************************************************************)
(* POST /documents (postDocument)                                          *)
(***************************************************************************)
\* variant: the limit itself is still allowed
limitReached_exclusive(documentsCount) ==
  documentsCount > documentCreationLimit
limitReached(documentsCount) == documentsCount >= documentCreationLimit

\* `req.body.author = req.session.user._id`: the author the handler stores,
\* given the session user and the author that the body carries
\* variant: the author of the body is kept
bodyAuthor_supplied(user, supplied) == supplied
bodyAuthor(user, supplied) == user

StartPostDocument(s) ==
  /\ \E user \in Users, slug \in SlugInputs :
       Receive(s, [IdleReq EXCEPT !.op = "postDocument", !.pc = "post_count",
                                  !.user = user,
                                  !.body.customForm = slug])
  /\ UNCHANGED <<documents, versions, comments, outbox, now, likes,
                 delivery>>

\* Community.get, Document.countAuthorDocuments and the limit check
PostDocument_count(s) ==
  /\ reqs[s].pc = "post_count"
  /\ LET documentsCount == Document_countAuthorDocuments(reqs[s].user)
     IN  IF limitReached(documentsCount)
         THEN Respond(s, "NotAuthorized")
         ELSE Goto(s, "post_create")
  /\ UNCHANGED <<documents, versions, comments, outbox, now, likes,
                 delivery>>

\* CustomForm.get by slug, Document.create, the closing notification
PostDocument_create(s) ==
  /\ reqs[s].pc = "post_create"
  /\ \E content \in Contents, supplied \in Users :
     LET customForm == CustomForm_get(reqs[s].body.customForm)
         body == [author |-> bodyAuthor(reqs[s].user, supplied),
                  content |-> content]
     IN  IF customForm = ""
         THEN /\ Respond(s, "BadRequest")
              /\ UNCHANGED <<documents, versions, outbox>>
         ELSE /\ documents' = Document_create_documents(body, customForm)
              /\ versions' = Document_create_versions(body, customForm)
              /\ outbox' = setDocumentClosesNotification(outbox,
                              Len(documents) + 1, body.content.closingDate)
              /\ Respond(s, "Created")
  /\ UNCHANGED <<comments, now, likes, delivery>>

(***************************************************************************)
(* PUT /documents/:id (putDocument)                                        *)
(***************************************************************************)
\* variant: the author check is left out
isTheAuthor_anyone(user, document) == TRUE
isTheAuthor(user, document) == user = document.author

\* variant: the version number is not advanced
newVersionData_sameNumber(document, body) ==
  [document |-> document._id,
   version |-> document.currentVersion.version,
   content |-> body.content,
   contributions |-> body.contributions]
\* variant: the version is filed under the author's id
newVersionData_authorId(document, body) ==
  [document |-> document.author,
   version |-> document.currentVersion.version + 1,
   content |-> body.content,
   contributions |-> body.contributions]
newVersionData(document, body) ==
  [document |-> document._id,
   version |-> document.currentVersion.version + 1,
   content |-> body.content,
   contributions |-> body.contributions]

newDataDocument(body, versionCreated) ==
  [published |-> body.published, closed |-> body.closed,
   currentVersion |-> versionCreated]

StartPutDocument(s) ==
  /\ \E user \in Users, id \in DocIds :
       Receive(s, [IdleReq EXCEPT !.op = "putDocument", !.pc = "put_get",
                                  !.user = user, !.id = id])
  /\ UNCHANGED <<documents, versions, comments, outbox, now, likes,
                 delivery>>

\* pc after the decorations have been dealt with (CustomForm.get is a read
\* of data no handler writes)
\* variant: a new version whatever the contributions
PutAfterDecorations_newVersion(body) == "put_version_create"
PutAfterDecorations(body) ==
  IF Len(body.contributions) > 0 THEN "put_version_create"
  ELSE "put_version_update"

\* Document.get and the author check
PutDocument_get(s) ==
  /\ reqs[s].pc = "put_get"
  /\ LET document == Document_get(reqs[s].id)
     IN  IF document = NullDocument
         THEN Respond(s, "NotFound")
         ELSE IF ~isTheAuthor(reqs[s].user, document)
         THEN Respond(s, "Forbidden")
         ELSE \E decorations \in DecorationInputs,
                 contributions \in ContributionInputs :
                LET body == [reqs[s].body EXCEPT
                                  !.decorations = decorations,
                                  !.contributions = contributions]
                IN  Await(s, [reqs[s] EXCEPT
                                !.document = document,
                                !.body = body,
                                !.pc = IF Len(decorations) > 0
                                       THEN "put_decorations"
                                       ELSE PutAfterDecorations(body)])
  /\ UNCHANGED <<documents, versions, comments, outbox, now, likes,
                 delivery>>

\* the version whose comments the handler has re-anchored: the current
\* version of the document it has read
\* variant: the version that comes next
decoratedVersion_next(document) == document.currentVersion._id + 1
decoratedVersion(document) == document.currentVersion._id

\* Comment.updateDecorations
PutDocument_decorations(s) ==
  /\ reqs[s].pc = "put_decorations"
  /\ comments' = Comment_updateDecorations(
                   decoratedVersion(reqs[s].document),
                   reqs[s].body.decorations)
  /\ Goto(s, PutAfterDecorations(reqs[s].body))
  /\ UNCHANGED <<documents, versions, outbox, now, likes, delivery>>

\* DocumentVersion.create
PutDocument_versionCreate(s) ==
  /\ reqs[s].pc = "put_version_create"
  /\ \E content \in Contents :
       LET body == [reqs[s].body EXCEPT !.content = content]
       IN  /\ versions' = DocumentVersion_create(
                            newVersionData(reqs[s].document, body))
           /\ Await(s, [reqs[s] EXCEPT !.body = body,
                                       !.versionCreated = Len(versions) + 1,
                                       !.pc = "put_contributors"])
  /\ UNCHANGED <<documents, comments, outbox, now, likes, delivery>>

\* Comment.getAll and one comment-contribution notification per comment
PutDocument_contributors(s) ==
  /\ reqs[s].pc = "put_contributors"
  /\ outbox' = sendCommentNotifications(outbox, "comment-contribution",
                 Comment_getAll(reqs[s].body.contributions))
  /\ Goto(s, "put_update")
  /\ UNCHANGED <<documents, versions, comments, now, likes, delivery>>

\* DocumentVersion.update
PutDocument_versionUpdate(s) ==
  /\ reqs[s].pc = "put_version_update"
  /\ \E content \in AmendedContents :
       /\ versions' = DocumentVersion_update(
                        reqs[s].document.currentVersion._id, content)
       /\ Await(s, [reqs[s] EXCEPT !.body.content = content,
                                   !.pc = "put_update"])
  /\ UNCHANGED <<documents, comments, outbox, now, likes, delivery>>

\* Document.update and the closing notification; the response carries the
\* document as Document.update returns it
PutDocument_update(s) ==
  /\ reqs[s].pc = "put_update"
  /\ \E patch \in UpdatePatches :
       documents' = Document_update(reqs[s].id,
                      newDataDocument([reqs[s].body EXCEPT
                                         !.published = patch.published,
                                         !.closed = patch.closed],
                                      reqs[s].versionCreated))
  /\ outbox' = IF reqs[s].body.content.closingDate # NoDate
               THEN setDocumentClosesNotification(outbox, reqs[s].id,
                      reqs[s].body.content.closingDate)
               ELSE outbox
  /\ Reply(s, "OK",
           [results |-> {DocumentJSON(reqs[s].id,
                                      documents'[reqs[s].id].closed)},
            isAuthor |-> FALSE])
  /\ UNCHANGED <<versions, comments, now, likes, delivery>>

(***************************************************************************)
(* POST /documents/:id/comments (createComment)                            *)
(***************************************************************************)
\* variant: every field accepts comments
isCommentable_anyField(customForm, field) == TRUE
isCommentable(customForm, field) == field \in allowComments(customForm)

\* the closing check: the current version has a closingDate in the past
\* variant: the comparison is turned around
isPastClosing_reversed(content, nowDate) ==
  content.closingDate # NoDate /\ content.closingDate > nowDate
isPastClosing(content, nowDate) ==
  content.closingDate # NoDate /\ content.closingDate < nowDate

commentBody(r) ==
  [user |-> r.user,
   document |-> r.document._id,
   version |-> r.document.currentVersion._id,
   field |-> r.body.field,
   decoration |-> IF r.body.decoration = "undefined" THEN "null"
                  ELSE r.body.decoration]

\* the document whose counter the handler increments
\* variant: the counter of the document named by the user id
addCommentQuery_userId(r) == r.user
addCommentQuery(r) == r.id

StartCreateComment(s) ==
  /\ \E user \in Users, id \in DocIds, field \in FieldInputs :
       Receive(s, [IdleReq EXCEPT !.op = "createComment",
                                  !.pc = "comment_get",
                                  !.user = user, !.id = id,
                                  !.body.field = field])
  /\ UNCHANGED <<documents, versions, comments, outbox, now, likes,
                 delivery>>

\* Document.get
CreateComment_get(s) ==
  /\ reqs[s].pc = "comment_get"
  /\ LET document == Document_get(reqs[s].id)
     IN  IF document = NullDocument
         THEN Respond(s, "NotFound")
         ELSE Await(s, [reqs[s] EXCEPT !.document = document,
                                       !.pc = "comment_check"])
  /\ UNCHANGED <<documents, versions, comments, outbox, now, likes,
                 delivery>>

\* CustomForm.get, the allowComments check and the closing check, which
\* reads the clock
CreateComment_check(s) ==
  /\ reqs[s].pc = "comment_check"
  /\ IF ~isCommentable(reqs[s].document.customForm, reqs[s].body.field)
     THEN Respond(s, "InvalidParam")
     ELSE IF isPastClosing(reqs[s].document.currentVersion.content, now)
     THEN Respond(s, "Closed")
     ELSE Goto(s, "comment_create")
  /\ UNCHANGED <<documents, versions, comments, outbox, now, likes,
                 delivery>>

\* Comment.create
CreateComment_create(s) ==
  /\ reqs[s].pc = "comment_create"
  /\ \E decoration \in CommentDecorationInputs :
       comments' = Comment_create(
                     commentBody([reqs[s] EXCEPT
                                    !.body.decoration = decoration]))
  /\ Goto(s, "comment_add")
  /\ UNCHANGED <<documents, versions, outbox, now, likes, delivery>>

\* Document.addComment
CreateComment_addComment(s) ==
  /\ reqs[s].pc = "comment_add"
  /\ documents' = Document_addComment(addCommentQuery(reqs[s]))
  /\ Respond(s, "Created")
  /\ UNCHANGED <<versions, comments, outbox, now, likes, delivery>>

(***************************************************************************)
(* POST /documents/:id/comments/:idComment/resolve (resolveComment)        *)
(***************************************************************************)
\* the comment the handler resolves
\* variant: the comment with the id of the document
resolveQuery_documentId(r) == r.id
resolveQuery(r) == r.idComment

StartResolveComment(s) ==
  /\ \E user \in Users, id \in DocIds, idComment \in CommentIds :
       Receive(s, [IdleReq EXCEPT !.op = "resolveComment",
                                  !.pc = "resolve_get",
                                  !.user = user, !.id = id,
                                  !.idComment = idComment])
  /\ UNCHANGED <<documents, versions, comments, outbox, now, likes,
                 delivery>>

\* Document.get and the author check; reading the author of a null
\* document throws a TypeError, which ends in the generic error handler
ResolveComment_get(s) ==
  /\ reqs[s].pc = "resolve_get"
  /\ LET document == Document_get(reqs[s].id)
     IN  IF document = NullDocument
         THEN Respond(s, "InternalError")
         ELSE IF ~isTheAuthor(reqs[s].user, document)
         THEN Respond(s, "Forbidden")
         ELSE Await(s, [reqs[s] EXCEPT !.document = document,
                                       !.pc = "resolve_resolve"])
  /\ UNCHANGED <<documents, versions, comments, outbox, now, likes,
                 delivery>>

\* Comment.resolve and the comment-resolved notification
ResolveComment_resolve(s) ==
  /\ reqs[s].pc = "resolve_resolve"
  /\ comments' = Comment_resolve(resolveQuery(reqs[s]))
  /\ outbox' = sendCommentNotification(outbox, "comment-resolved",
                                       reqs[s].idComment)
  /\ Respond(s, "OK")
  /\ UNCHANGED <<documents, versions, now, likes, delivery>>

(***************************************************************************)
(* POST /documents/:id/comments/:idComment/reply                           *)
(***************************************************************************)
StartReplyComment(s) ==
  /\ \E user \in Users, id \in DocIds, idComment \in CommentIds :
       Receive(s, [IdleReq EXCEPT !.op = "replyComment",
                                  !.pc = "reply_get",
                                  !.user = user, !.id = id,
                                  !.idComment = idComment])
  /\ UNCHANGED <<documents, versions, comments, outbox, now, likes,
                 delivery>>

\* Document.get and the author check
ReplyComment_get(s) ==
  /\ reqs[s].pc = "reply_get"
  /\ LET document == Document_get(reqs[s].id)
     IN  IF document = NullDocument
         THEN Respond(s, "InternalError")
         ELSE IF ~isTheAuthor(reqs[s].user, document)
         THEN Respond(s, "Forbidden")
         ELSE Await(s, [reqs[s] EXCEPT !.document = document,
                                       !.pc = "reply_reply"])
  /\ UNCHANGED <<documents, versions, comments, outbox, now, likes,
                 delivery>>

\* Comment.reply
ReplyComment_reply(s) ==
  /\ reqs[s].pc = "reply_reply"
  /\ \E reply \in ReplyInputs :
       comments' = Comment_reply(reqs[s].idComment, reply)
  /\ Respond(s, "OK")
  /\ UNCHANGED <<documents, versions, outbox, now, likes, delivery>>

(***************************************************************************)
(* POST /documents/:id/comments/:idComment/like (likeComment)              *)
(***************************************************************************)
likeQuery(r) == [user |-> r.user, comment |-> r.idComment]

\* `if (!like)`: the handler creates a like when it found none
\* variant: it never finds one
likeFound_never(like) == FALSE
likeFound(like) == like # 0

StartLikeComment(s) ==
  /\ \E user \in Users, id \in DocIds, idComment \in CommentIds :
       Receive(s, [IdleReq EXCEPT !.op = "likeComment", !.pc = "like_get",
                                  !.user = user, !.id = id,
                                  !.idComment = idComment])
  /\ UNCHANGED <<documents, versions, comments, outbox, now, likes,
                 delivery>>

\* Like.get
LikeComment_get(s) ==
  /\ reqs[s].pc = "like_get"
  /\ LET like == Like_get(likeQuery(reqs[s]))
     IN  IF likeFound(like)
         THEN Await(s, [reqs[s] EXCEPT !.like = like, !.pc = "like_remove"])
         ELSE Goto(s, "like_document")
  /\ UNCHANGED <<documents, versions, comments, outbox, now, likes,
                 delivery>>

\* Document.get; reading the author of a null document throws a
\* TypeError, which ends in the generic error handler
LikeComment_document(s) ==
  /\ reqs[s].pc = "like_document"
  /\ LET document == Document_get(reqs[s].id)
     IN  IF document = NullDocument
         THEN Respond(s, "InternalError")
         ELSE Await(s, [reqs[s] EXCEPT !.document = document,
                                       !.pc = "like_create"])
  /\ UNCHANGED <<documents, versions, comments, outbox, now, likes,
                 delivery>>

\* Like.create and, for the author of the document, the comment-liked
\* notification; the response carries the like.  When the pair has a like
\* already, Like.create either rejects or resolves to the existing like.
LikeComment_create(s) ==
  /\ reqs[s].pc = "like_create"
  /\ \E rejects \in BOOLEAN :
       IF rejects /\ Like_get(likeQuery(reqs[s])) # 0
       THEN /\ Respond(s, "InternalError")
            /\ UNCHANGED <<likes, outbox>>
       ELSE /\ likes' = Like_create(likeQuery(reqs[s]))
            /\ outbox' = IF isTheAuthor(reqs[s].user, reqs[s].document)
                         THEN sendCommentNotification(outbox, "comment-liked",
                                                      reqs[s].idComment)
                         ELSE outbox
            /\ Respond(s, "Like")
  /\ UNCHANGED <<documents, versions, comments, now, delivery>>

\* Like.remove; the response carries null
LikeComment_remove(s) ==
  /\ reqs[s].pc = "like_remove"
  /\ likes' = Like_remove(reqs[s].like)
  /\ Respond(s, "Null")
  /\ UNCHANGED <<documents, versions, comments, outbox, now, delivery>>

(***************************************************************************)
(* The reads: GET /documents/:id (getDocument), GET /documents and         *)
(* GET /my-documents.  Pagination is left out: a listing is one page.      *)
(***************************************************************************)
\* req.session.user of a request without a session
Anonymous == 0
Sessions == Users \cup {Anonymous}

\* `new Date(value)`: an absent value gives an invalid date
InvalidDate == -1
NewDate(value) == IF value = NoDate THEN InvalidDate ELSE value
\* `a > b` on dates: false when one of them is invalid
After(a, b) == a # InvalidDate /\ b # InvalidDate /\ a > b

\* `new Date() > new Date(document.currentVersion.content.closingDate)`
isClosed(content, today) == After(today, NewDate(content.closingDate))

\* `req.session.user ? req.session.user._id.equals(...) : false`
sessionIsTheAuthor(user, document) ==
  IF user # Anonymous THEN user = document.author ELSE FALSE

\* a draft is kept from everyone but its author
\* variant: a draft is kept from nobody
draftDenied_never(document, isAuthor) == FALSE
draftDenied(document, isAuthor) == ~document.published /\ ~isAuthor

\* Document.list(filter): the ids of the documents that match
Document_list_published == {d \in 1..Len(documents) : documents[d].published}
Document_list_author(user) ==
  {d \in 1..Len(documents) : documents[d].author = user}

StartGetDocument(s) ==
  /\ \E user \in Sessions, id \in DocIds :
       Receive(s, [IdleReq EXCEPT !.op = "getDocument", !.pc = "get_get",
                                  !.user = user, !.id = id])
  /\ UNCHANGED <<documents, versions, comments, outbox, now, likes,
                 delivery>>

\* Document.get, the author and draft checks and `closed`, which reads the
\* clock; an open document is delivered at once
GetDocument_get(s) ==
  /\ reqs[s].pc = "get_get"
  /\ LET document == Document_get(reqs[s].id)
         isAuthor == sessionIsTheAuthor(reqs[s].user, document)
         closed == isClosed(document.currentVersion.content, now)
     IN  IF document = NullDocument
         THEN Respond(s, "NotFound")
         ELSE IF draftDenied(document, isAuthor)
         THEN Respond(s, "Forbidden")
         ELSE IF closed
         THEN Await(s, [reqs[s] EXCEPT !.document = document,
                                       !.pc = "get_counts"])
         ELSE Reply(s, "OK",
                    [results |-> {DocumentJSON(document._id, closed)},
                     isAuthor |-> isAuthor])
  /\ UNCHANGED <<documents, versions, comments, outbox, now, likes,
                 delivery>>

\* a closed document: DocumentVersion.countContributions and Comment.count
\* (the counts themselves are left out), then the delivery
GetDocument_counts(s) ==
  /\ reqs[s].pc = "get_counts"
  /\ Reply(s, "OK",
           [results |-> {DocumentJSON(reqs[s].document._id, TRUE)},
            isAuthor |-> sessionIsTheAuthor(reqs[s].user,
                                            reqs[s].document)])
  /\ UNCHANGED <<documents, versions, comments, outbox, now, likes,
                 delivery>>

\* the handler of the public listing does not read the session
StartListDocuments(s) ==
  /\ Receive(s, [IdleReq EXCEPT !.op = "listDocuments", !.pc = "list_list"])
  /\ UNCHANGED <<documents, versions, comments, outbox, now, likes,
                 delivery>>

\* Document.list({ published: true }) and `closed` of every result
ListDocuments_list(s) ==
  /\ reqs[s].pc = "list_list"
  /\ Reply(s, "OK",
           [results |->
              {DocumentJSON(d, isClosed(Document_get(d).currentVersion
                                          .content, now)) :
                 d \in Document_list_published},
            isAuthor |-> FALSE])
  /\ UNCHANGED <<documents, versions, comments, outbox, now, likes,
                 delivery>>

StartMyDocuments(s) ==
  /\ \E user \in Users :
       Receive(s, [IdleReq EXCEPT !.op = "myDocuments", !.pc = "my_list",
                                  !.user = user])
  /\ UNCHANGED <<documents, versions, comments, outbox, now, likes,
                 delivery>>

\* Document.list({ author }): the documents are delivered as stored
MyDocuments_list(s) ==
  /\ reqs[s].pc = "my_list"
  /\ Reply(s, "OK",
           [results |-> {DocumentJSON(d, documents[d].closed) :
                           d \in Document_list_author(reqs[s].user)},
            isAuthor |-> FALSE])
  /\ UNCHANGED <<documents, versions, comments, outbox, now, likes,
                 delivery>>

(***************************************************************************)
(* The clock.                                                              *)
(***************************************************************************)
Tick ==
  /\ now < MaxTime
  /\ now' = now + 1
  /\ UNCHANGED <<documents, versions, comments, likes, outbox, delivery,
                 reqs, last, sent, budget>>

(***************************************************************************)
(* Specifications.                                                         *)
(***************************************************************************)
Step(s) ==
  \/ PostDocument_count(s)
  \/ PostDocument_create(s)
  \/ PutDocument_get(s)
  \/ PutDocument_decorations(s)
  \/ PutDocument_versionCreate(s)
  \/ PutDocument_contributors(s)
  \/ PutDocument_versionUpdate(s)
  \/ PutDocument_update(s)
  \/ CreateComment_get(s)
  \/ CreateComment_check(s)
  \/ CreateComment_create(s)
  \/ CreateComment_addComment(s)
  \/ ResolveComment_get(s)
  \/ ResolveComment_resolve(s)
  \/ ReplyComment_get(s)
  \/ ReplyComment_reply(s)
  \/ LikeComment_get(s)
  \/ LikeComment_document(s)
  \/ LikeComment_create(s)
  \/ LikeComment_remove(s)

Start(s) ==
  \/ StartPostDocument(s)
  \/ StartPutDocument(s)
  \/ StartCreateComment(s)
  \/ StartResolveComment(s)
  \/ StartReplyComment(s)
  \/ StartLikeComment(s)

\* requests are served concurrently: a handler may start while others are
\* suspended at an await
Next ==
  \/ \E s \in Slots : Start(s)
  \/ \E s \in Slots : Step(s)
  \/ Tick

Spec == Init /\ [][Next]_vars
SpecSerial == InitSerial /\ [][Next]_vars
SpecSerialLong == InitSerialLong /\ [][Next]_vars

\* the reads are served as well
StartRead(s) ==
  \/ StartGetDocument(s)
  \/ StartListDocuments(s)
  \/ StartMyDocuments(s)

StepRead(s) ==
  \/ GetDocument_get(s)
  \/ GetDocument_counts(s)
  \/ ListDocuments_list(s)
  \/ MyDocuments_list(s)

NextReads ==
  \/ Next
  \/ \E s \in Slots : StartRead(s)
  \/ \E s \in Slots : StepRead(s)

SpecSerialReads == InitSerial /\ [][NextReads]_vars

\* a pending store call of the handler in slot s rejects: the error goes
\* to the generic error handler and the call has changed nothing
StoreFails(s) ==
  /\ InFlight(s)
  /\ Respond(s, "InternalError")
  /\ UNCHANGED <<documents, versions, comments, outbox, now, likes,
                 delivery>>

NextFaults == Next \/ \E s \in Slots : StoreFails(s)
SpecSerialFaults == InitSerial /\ [][NextFaults]_vars

\* a post in flight reaches the notifier service, which handles it and
\* answers; posts are separate http requests and settle in any order
NotifierAnswers ==
  /\ \E payload \in BagToSet(outbox) :
       /\ outbox' = outbox (-) SetToBag({payload})
       /\ scheduled' = Notifier_setDocumentCloses(payload)
       /\ log' = logInfo(payload)
  /\ UNCHANGED <<documents, versions, comments, likes, now, reqs, last,
                 sent, budget>>

\* a post in flight fails before the service has handled it
NotifierFails ==
  /\ \E payload \in BagToSet(outbox) :
       /\ outbox' = catchError(outbox, payload)
       /\ log' = logError(payload)
  /\ UNCHANGED <<documents, versions, comments, likes, scheduled, now, reqs,
                 last, sent, budget>>

\* every post is answered or stays in flight
NextDelivered == Next \/ NotifierAnswers
SpecSerialDelivered == InitSerial /\ [][NextDelivered]_vars

\* a post is answered, fails or stays in flight
NextNotifier == Next \/ NotifierAnswers \/ NotifierFails
SpecSerialNotifier == InitSerial /\ [][NextNotifier]_vars

(***************************************************************************)
(* Properties.                                                             *)
(***************************************************************************)
Quiescent == \A s \in Slots : ~InFlight(s)
\* the handler in slot s takes the step
Stepped(s) == reqs'[s] # reqs[s]
VersionsOf(d) == {i \in 1..Len(versions) : versions[i].document = d}
CommentsOf(d) == {c \in 1..Len(comments) : comments[c].document = d}
CurrentVersionOf(d) == versions[documents[d].currentVersion]
AuthorDocuments(u) == {d \in 1..Len(documents) : documents[d].author = u}
ClosedNow(d) ==
  /\ CurrentVersionOf(d).content.closingDate # NoDate
  /\ CurrentVersionOf(d).content.closingDate < now
Response(s, res) ==
  [op |-> reqs[s].op, user |-> reqs[s].user, id |-> reqs[s].id, res |-> res]
\* the field of the request in slot s takes comments in the form of the
\* document the request names
CommentableField(s) ==
  reqs[s].body.field \in allowComments(documents[reqs[s].id].customForm)
\* the likes stored for the pair of user u and comment c
LikesIn(ls, u, c) ==
  {i \in 1..Len(ls) : ls[i].user = u /\ ls[i].comment = c}
LikesOf(u, c) == LikesIn(likes, u, c)
\* the comment-contribution events in box
ContributionEvents(box) ==
  {e \in BagToSet(box) : e.type = "comment-contribution"}
\* the handlers that have stored a comment on d and not yet counted it
CountPending(d) ==
  {s \in Slots : reqs[s].pc = "comment_add" /\ reqs[s].id = d}

(***************************************************************************)
(* C1: requests served one at a time.  The step that completes an update   *)
(* with contributions leaves currentVersion on the version the handler     *)
(* created, whose number is the previous current number plus one and whose *)
(* content and contributions are those of the request; the handler adds    *)
(* exactly one version; between requests the current version number of a   *)
(* document is the number of its versions, 1 + the number of such updates. *)
(***************************************************************************)
C1_Counted ==
  Quiescent =>
    \A d \in 1..Len(documents) :
      CurrentVersionOf(d).version = Cardinality(VersionsOf(d))

C1_OnceCreated ==
  \A s \in Slots :
    /\ reqs[s].pc \in {"put_decorations", "put_version_create"}
         => reqs[s].versionCreated = 0
    /\ reqs[s].pc = "put_update"
         => (reqs[s].versionCreated # 0
               <=> Len(reqs[s].body.contributions) > 0)

C1_Step ==
  \A s \in Slots :
    (reqs[s].op = "putDocument" /\ Stepped(s)) =>
      /\ Len(versions') = Len(versions)
           + (IF reqs[s].pc = "put_version_create" THEN 1 ELSE 0)
      /\ (reqs[s].pc = "put_update" /\ reqs[s].versionCreated # 0) =>
           LET v == reqs[s].versionCreated
               d == reqs[s].id
           IN  /\ last' = Response(s, "OK")
               /\ documents'[d].currentVersion = v
               /\ versions'[v].document = d
               /\ versions'[v].version = CurrentVersionOf(d).version + 1
               /\ versions'[v].content = reqs[s].body.content
               /\ versions'[v].contributions = reqs[s].body.contributions

C1_UpdateAddsNextVersion ==
  [](C1_Counted /\ C1_OnceCreated) /\ [][C1_Step]_vars

\* two updates with contributions have been served on a fresh document
C1_Witness ==
  /\ Quiescent
  /\ \E d \in 1..Len(documents) :
       /\ CurrentVersionOf(d).version = 3
       /\ Len(CurrentVersionOf(d).contributions) > 0
       /\ last = [op |-> "putDocument", user |-> documents[d].author,
                  id |-> d, res |-> "OK"]

(***************************************************************************)
(* C2: no two versions of a document carry the same version number.        *)
(***************************************************************************)
C2_UniqueVersionNumbers ==
  \A i, j \in 1..Len(versions) :
    (i # j /\ versions[i].document = versions[j].document)
      => versions[i].version # versions[j].version

(***************************************************************************)
(* C3: whenever a handler reads a document, no version of that document    *)
(* newer than the one currentVersion references exists.                    *)
(***************************************************************************)
C3_ReadStep ==
  \A s \in Slots :
    (/\ reqs[s].pc \in {"put_get", "comment_get", "resolve_get", "reply_get"}
     /\ Stepped(s)
     /\ DocumentExists(reqs[s].id)) =>
      \A i \in VersionsOf(reqs[s].id) :
        versions[i].version <= CurrentVersionOf(reqs[s].id).version

C3_NeverSplit == [][C3_ReadStep]_vars

(***************************************************************************)
(* C4: in every state each document has a currentVersion, which is a       *)
(* stored version filed under that document.  The documents grow by one at *)
(* a time, only in the creating step of POST /documents, which answers     *)
(* Created and stores the document unpublished together with its version   *)
(* numbered 1; a POST /documents step that does anything else (a refusal,  *)
(* a failure of the store) leaves documents and versions as they were.     *)
(***************************************************************************)
C4_Owned ==
  \A d \in 1..Len(documents) :
    /\ documents[d].currentVersion \in 1..Len(versions)
    /\ CurrentVersionOf(d).document = d

C4_Step ==
  /\ Len(documents') \in {Len(documents), Len(documents) + 1}
  /\ Len(documents') = Len(documents) + 1 =>
       LET d == Len(documents')
           v == documents'[d].currentVersion
       IN  /\ documents'[d].published = FALSE
           /\ Len(versions') = Len(versions) + 1
           /\ v = Len(versions')
           /\ versions'[v].document = d
           /\ versions'[v].version = 1
           /\ \E s \in Slots :
                /\ reqs[s].pc = "post_create"
                /\ last' = Response(s, "Created")
  /\ \A s \in Slots :
       (reqs[s].op = "postDocument" /\ Stepped(s)
          /\ Len(documents') = Len(documents)) =>
         /\ UNCHANGED <<documents, versions>>
         /\ reqs[s].pc = "post_create" => last'.res # "Created"

C5_Step ==
  \A s \in Slots :
    (reqs[s].op = "postDocument" /\ Stepped(s)) =>
      LET count == Cardinality(AuthorDocuments(reqs[s].user))
      IN  /\ (reqs[s].pc = "post_count" /\ count >= documentCreationLimit) =>
               /\ last' = Response(s, "NotAuthorized")
               /\ reqs'[s] = IdleReq
               /\ UNCHANGED <<documents, versions>>
          /\ (reqs[s].pc = "post_count" /\ count < documentCreationLimit) =>
               /\ reqs'[s].pc = "post_create"
               /\ UNCHANGED <<documents, versions>>
          /\ reqs[s].pc = "post_create" => count < documentCreationLimit
          /\ (reqs[s].pc = "post_create"
                /\ reqs[s].body.customForm \in FormSlugs) =>
               /\ last' = Response(s, "Created")
               /\ Len(documents') = Len(documents) + 1
               /\ documents'[Len(documents')].author = reqs[s].user

C5_CreationLimit == [][C5_Step]_vars

\* a user whose only document is a draft has been refused
C5_Witness ==
  /\ last.op = "postDocument" /\ last.res = "NotAuthorized"
  /\ Cardinality(AuthorDocuments(last.user)) = documentCreationLimit
  /\ \A d \in AuthorDocuments(last.user) : ~documents[d].published

(***************************************************************************)
(* C6: requests served one at a time.  A POST comment on an existing       *)
(* document reaches the field check, and when its field is not in the      *)
(* allowComments of the document's form the handler answers InvalidParam   *)
(* and leaves comments and documents as they were, whoever the user is and *)
(* whether the document is closed or not; no handler is ever about to      *)
(* store a comment on such a field.                                        *)
(***************************************************************************)
C6_Checked ==
  \A s \in Slots :
    reqs[s].pc \in {"comment_create", "comment_add"} => CommentableField(s)

C6_Step ==
  \A s \in Slots :
    (reqs[s].op = "createComment" /\ Stepped(s)
       /\ DocumentExists(reqs[s].id)) =>
      /\ reqs[s].pc = "comment_get" => reqs'[s].pc = "comment_check"
      /\ (reqs[s].pc = "comment_check" /\ ~CommentableField(s)) =>
           /\ last' = Response(s, "InvalidParam")
           /\ reqs'[s] = IdleReq
           /\ UNCHANGED <<comments, documents>>

C6_FieldNotCommentable == []C6_Checked /\ [][C6_Step]_vars

\* the author of a closed document has been refused on a field that takes
\* no comments
C6_Witness ==
  /\ last.op = "createComment" /\ last.res = "InvalidParam"
  /\ DocumentExists(last.id)
  /\ documents[last.id].author = last.user
  /\ ClosedNow(last.id)

(***************************************************************************)
(* C7: requests served one at a time.  When the current version of the     *)
(* document has a closingDate before the clock, the check of a POST        *)
(* comment on a commentable field answers Closed and leaves comments and   *)
(* documents as they were; otherwise the handler goes on to store the      *)
(* comment.  A closed document stays closed in every step that leaves the  *)
(* closingDate of its current version as it was.                           *)
(***************************************************************************)
C7_Step ==
  /\ \A s \in Slots :
       (reqs[s].op = "createComment" /\ Stepped(s)
          /\ reqs[s].pc = "comment_check" /\ CommentableField(s)) =>
         IF ClosedNow(reqs[s].id)
         THEN /\ last' = Response(s, "Closed")
              /\ reqs'[s] = IdleReq
              /\ UNCHANGED <<comments, documents>>
         ELSE reqs'[s].pc = "comment_create"
  /\ \A d \in 1..Len(documents) :
       (ClosedNow(d) /\ CurrentVersionOf(d)'.content.closingDate
                          = CurrentVersionOf(d).content.closingDate)
         => ClosedNow(d)'

C7_ClosedRefusesComments == [][C7_Step]_vars

\* a comment on a commentable field of a closed document has been refused
C7_Witness ==
  /\ last.op = "createComment" /\ last.res = "Closed"
  /\ DocumentExists(last.id)
  /\ ClosedNow(last.id)
  /\ documents[last.id].commentsCount = 0 /\ CommentsOf(last.id) = {}

(***************************************************************************)
(* C8: requests served one at a time.  The commentsCount of a document,    *)
(* plus one for a handler that has stored a comment on it and is about to  *)
(* count it, is the number of comments stored on it.  A comment is stored  *)
(* only by the storing step of POST comment, one at a time and unresolved; *)
(* commentsCount changes only in the counting step of a POST comment that  *)
(* answers Created, by exactly one and with nothing else of the documents  *)
(* changed; a POST comment that is refused changes neither.                *)
(***************************************************************************)
C8_Counted ==
  \A d \in 1..Len(documents) :
    documents[d].commentsCount + Cardinality(CountPending(d))
      = Cardinality(CommentsOf(d))

C8_Step ==
  /\ \A d \in 1..Len(documents) :
       documents'[d].commentsCount # documents[d].commentsCount =>
         /\ documents' = [documents EXCEPT
                            ![d].commentsCount = documents[d].commentsCount + 1]
         /\ \E s \in Slots :
              /\ reqs[s].pc = "comment_add" /\ reqs[s].id = d
              /\ last' = Response(s, "Created")
  /\ comments' # comments =>
       \/ /\ Len(comments') = Len(comments) + 1
          /\ SubSeq(comments', 1, Len(comments)) = comments
          /\ comments'[Len(comments')].resolved = FALSE
          /\ \E s \in Slots :
               /\ reqs[s].pc = "comment_create"
               /\ comments'[Len(comments')].document = reqs[s].id
               /\ reqs'[s].pc = "comment_add"
       \/ /\ Len(comments') = Len(comments)
          /\ \A c \in 1..Len(comments) :
               comments'[c].document = comments[c].document
  /\ \A s \in Slots :
       (reqs[s].op = "createComment" /\ Stepped(s)
          /\ reqs[s].pc # "comment_add" /\ reqs'[s] = IdleReq) =>
         /\ last'.res \in {"NotFound", "InvalidParam", "Closed"}
         /\ UNCHANGED <<comments, documents>>

C8_CommentsCounted == []C8_Counted /\ [][C8_Step]_vars

\* two comments have been created on a document by someone else than its
\* author
C8_Witness ==
  /\ Quiescent
  /\ last.op = "createComment" /\ last.res = "Created"
  /\ DocumentExists(last.id)
  /\ documents[last.id].author # last.user
  /\ documents[last.id].commentsCount = 2
  /\ \A c \in CommentsOf(last.id) : ~comments[c].resolved

(***************************************************************************)
(* C9: the resolved flag and the reply of a comment change only in a step  *)
(* of a handler whose user is the author of the document the comment       *)
(* belongs to.                                                             *)
(***************************************************************************)
C9_Step ==
  \A c \in 1..Len(comments) :
    (\/ comments'[c].resolved # comments[c].resolved
     \/ comments'[c].reply # comments[c].reply) =>
      \E s \in Slots :
        /\ Stepped(s)
        /\ reqs[s].user = documents[comments[c].document].author

C9_OnlyOwnAuthor == [][C9_Step]_vars

(***************************************************************************)
(* C10: requests served one at a time.  A resolve on document D by a user  *)
(* who is not the author of D answers Forbidden and leaves the comments    *)
(* and the notifications as they were; by the author of D it goes on, and  *)
(* its next step answers OK, sets resolved of the comment to true and      *)
(* emits one comment-resolved notification for it.                         *)
(***************************************************************************)
C10_Step ==
  \A s \in Slots :
    (reqs[s].op = "resolveComment" /\ Stepped(s)
       /\ DocumentExists(reqs[s].id)) =>
      /\ (reqs[s].pc = "resolve_get"
            /\ reqs[s].user # documents[reqs[s].id].author) =>
           /\ last' = Response(s, "Forbidden")
           /\ reqs'[s] = IdleReq
           /\ UNCHANGED <<comments, outbox>>
      /\ (reqs[s].pc = "resolve_get"
            /\ reqs[s].user = documents[reqs[s].id].author) =>
           /\ reqs'[s].pc = "resolve_resolve"
           /\ UNCHANGED <<comments, outbox>>
      /\ (reqs[s].pc = "resolve_resolve"
            /\ CommentExists(reqs[s].idComment)) =>
           /\ last' = Response(s, "OK")
           /\ comments' = [comments EXCEPT ![reqs[s].idComment].resolved = TRUE]
           /\ outbox' = outbox (+) SetToBag(
                          {CommentEvent("comment-resolved", reqs[s].idComment)})

C10_Authorized ==
  \A s \in Slots :
    reqs[s].pc = "resolve_resolve" =>
      reqs[s].user = documents[reqs[s].id].author

C10_ResolveByAuthorOnly == []C10_Authorized /\ [][C10_Step]_vars

\* a user who is not the author of the document has been refused the
\* resolve of an unresolved comment of that document
C10_Witness ==
  /\ last.op = "resolveComment" /\ last.res = "Forbidden"
  /\ \E c \in CommentsOf(last.id) :
       /\ c \in CommentIds
       /\ ~comments[c].resolved
  /\ BagCardinality(outbox) = 1

(***************************************************************************)
(* C11: requests served one at a time.  A resolve by the author of the     *)
(* document goes on to its resolving step whatever the state of the        *)
(* comment; that step answers OK and leaves the comment resolved, and when *)
(* the comment was resolved already it leaves the comments as they were.   *)
(* No step turns resolved from true to false.                              *)
(***************************************************************************)
C11_Step ==
  /\ \A c \in 1..Len(comments) :
       comments[c].resolved => comments'[c].resolved
  /\ \A s \in Slots :
       (reqs[s].op = "resolveComment" /\ Stepped(s)
          /\ CommentExists(reqs[s].idComment)) =>
         /\ (reqs[s].pc = "resolve_get" /\ DocumentExists(reqs[s].id)
               /\ reqs[s].user = documents[reqs[s].id].author) =>
              reqs'[s].pc = "resolve_resolve"
         /\ reqs[s].pc = "resolve_resolve" =>
              /\ last' = Response(s, "OK")
              /\ comments'[reqs[s].idComment].resolved
              /\ comments[reqs[s].idComment].resolved => comments' = comments

C11_ResolveIdempotent == [][C11_Step]_vars

\* the author has resolved the same comment twice
C11_Witness ==
  /\ last.op = "resolveComment" /\ last.res = "OK"
  /\ \E c \in CommentsOf(last.id) :
       /\ comments[c].resolved
       /\ CopiesIn(CommentEvent("comment-resolved", c), outbox) = 2

(***************************************************************************)
(* C12: requests served one at a time.  A like request of user u on        *)
(* comment c, naming an existing document, stores a like of (u, c) and     *)
(* answers with the like when the pair had none, and removes the like and  *)
(* answers null when it had one; so the calls alternate between one like   *)
(* and none.  Like.get finds a like of a pair exactly when one is stored.  *)
(* No step of the request changes the likes of another pair.               *)
(***************************************************************************)
C12_GetExact ==
  \A u \in Users, c \in CommentIds :
    LET like == Like_get([user |-> u, comment |-> c])
    IN  /\ like # 0 <=> LikesOf(u, c) # {}
        /\ like # 0 => like \in LikesOf(u, c)

C12_Step ==
  \A s \in Slots :
    (reqs[s].op = "likeComment" /\ Stepped(s)) =>
      LET u == reqs[s].user
          c == reqs[s].idComment
      IN  /\ reqs[s].pc = "like_get" =>
               /\ reqs'[s].pc = IF LikesOf(u, c) = {} THEN "like_document"
                                ELSE "like_remove"
               /\ likes' = likes
          /\ (reqs[s].pc = "like_document" /\ DocumentExists(reqs[s].id)) =>
               /\ reqs'[s].pc = "like_create"
               /\ likes' = likes
          /\ reqs[s].pc = "like_create" =>
               /\ LikesOf(u, c) = {}
               /\ Cardinality(LikesIn(likes', u, c)) = 1
               /\ last' = Response(s, "Like")
          /\ reqs[s].pc = "like_remove" =>
               /\ Cardinality(LikesOf(u, c)) = 1
               /\ LikesIn(likes', u, c) = {}
               /\ last' = Response(s, "Null")
          /\ \A u2 \in Users, c2 \in CommentIds :
               <<u2, c2>> # <<u, c>> =>
                 LikesIn(likes', u2, c2) = LikesOf(u2, c2)

C12_LikeToggles == []C12_GetExact /\ [][C12_Step]_vars

\* three calls of one user on one comment: the like was stored, removed
\* and stored again
C12_Witness ==
  /\ last.op = "likeComment" /\ last.res = "Like"
  /\ \E i, j \in 1..Len(likes) :
       /\ i < j
       /\ likes[i] = NoLike
       /\ likes[j].user = last.user
       /\ \A k \in 1..Len(likes) : k # i => likes[k] = likes[j]

C14_Step ==
  \A s \in Slots :
    (reqs[s].op = "likeComment" /\ Stepped(s)
       /\ CommentExists(reqs[s].idComment)) =>
      /\ outbox' # outbox <=>
           /\ reqs[s].pc = "like_create"
           /\ likes' # likes
           /\ reqs[s].user = documents[reqs[s].id].author
           /\ reqs[s].user # comments[reqs[s].idComment].user
      /\ outbox' # outbox =>
           outbox' = outbox (+) SetToBag(
                       {CommentEvent("comment-liked", reqs[s].idComment)})

C14_LikedNotification == [][C14_Step]_vars

(***************************************************************************)
(* C15: requests served one at a time.  An update by the author with no    *)
(* contributions takes the amending path: its steps store no version,      *)
(* leave the number, the contributions and the document of every version   *)
(* as they were, leave currentVersion of the document as it was and emit   *)
(* no comment-contribution event; the amending step replaces the content   *)
(* of the current version by the content of the request.                   *)
(***************************************************************************)
C15_Amending(r) ==
  /\ r.op = "putDocument"
  /\ r.pc \in {"put_decorations", "put_version_create", "put_contributors",
               "put_version_update", "put_update"}
  /\ Len(r.body.contributions) = 0

C15_Path ==
  \A s \in Slots :
    C15_Amending(reqs[s]) =>
      /\ reqs[s].pc \notin {"put_version_create", "put_contributors"}
      /\ reqs[s].versionCreated = 0

C15_Step ==
  \A s \in Slots :
    (C15_Amending(reqs[s]) /\ Stepped(s)) =>
      LET d == reqs[s].id
          v == documents[d].currentVersion
      IN  /\ Len(versions') = Len(versions)
          /\ \A i \in 1..Len(versions) :
               /\ versions'[i].version = versions[i].version
               /\ versions'[i].contributions = versions[i].contributions
               /\ versions'[i].document = versions[i].document
          /\ documents'[d].currentVersion = v
          /\ ContributionEvents(outbox') = ContributionEvents(outbox)
          /\ reqs[s].pc = "put_version_update" =>
               /\ reqs'[s].pc = "put_update"
               /\ versions' = [versions EXCEPT
                                 ![v].content = reqs'[s].body.content]
          /\ reqs[s].pc = "put_update" => last' = Response(s, "OK")

C15_AmendsInPlace == []C15_Path /\ [][C15_Step]_vars

\* a document created without closingDate has been given one by an update
\* without contributions, and has one version still
C15_Witness ==
  /\ last.op = "putDocument" /\ last.res = "OK"
  /\ Cardinality(VersionsOf(last.id)) = 1
  /\ CurrentVersionOf(last.id).content.closingDate # NoDate
  /\ CopiesIn(DocumentClosesEvent(last.id, NoDate), outbox) = 1

(***************************************************************************)
(* C16: requests served one at a time.  An update of an existing document  *)
(* by a user who is not its author answers Forbidden in its first step and *)
(* leaves documents, versions, comments and the emitted events as they     *)
(* were; every update handler past that step runs for the author.          *)
(***************************************************************************)
C16_Authorized ==
  \A s \in Slots :
    (reqs[s].op = "putDocument" /\ reqs[s].pc # "put_get") =>
      reqs[s].user = documents[reqs[s].id].author

C16_Step ==
  \A s \in Slots :
    (reqs[s].op = "putDocument" /\ Stepped(s) /\ reqs[s].pc = "put_get"
       /\ DocumentExists(reqs[s].id)
       /\ reqs[s].user # documents[reqs[s].id].author) =>
      /\ last' = Response(s, "Forbidden")
      /\ reqs'[s] = IdleReq
      /\ UNCHANGED <<documents, versions, comments, outbox>>

C16_UpdateByAuthorOnly == []C16_Authorized /\ [][C16_Step]_vars

\* an update of a document that has a comment has been refused
C16_Witness ==
  /\ last.op = "putDocument" /\ last.res = "Forbidden"
  /\ DocumentExists(last.id)
  /\ CommentsOf(last.id) # {}
  /\ documents[last.id].author # last.user

(***************************************************************************)
(* C17: the step of an update that notifies the contributors emits one     *)
(* comment-contribution event for each comment id in the contributions of  *)
(* the request, and nothing else.                                          *)
(***************************************************************************)
C17_Step ==
  \A s \in Slots :
    (reqs[s].op = "putDocument" /\ Stepped(s)
       /\ reqs[s].pc = "put_contributors") =>
      outbox' = outbox (+) SetToBag(
                  {CommentEvent("comment-contribution", c) :
                     c \in Range(reqs[s].body.contributions)})

C17_OneEventPerContribution == [][C17_Step]_vars

(***************************************************************************)
(* C18: the step of POST /documents that stores the document emits one     *)
(* document-closes event, with the id of the document and the date, when   *)
(* the content has a closingDate, and nothing when it has none.            *)
(***************************************************************************)
C18_Step ==
  Len(documents') = Len(documents) + 1 =>
    LET d == Len(documents')
        closingDate == versions'[documents'[d].currentVersion]
                         .content.closingDate
    IN  outbox' = IF closingDate # NoDate
                  THEN outbox (+)
                         SetToBag({DocumentClosesEvent(d, closingDate)})
                  ELSE outbox

C18_ClosesEventIffDate == [][C18_Step]_vars

(***************************************************************************)
(* C19: requests served one at a time, every post answered or in flight.   *)
(* When no handler runs and no document-closes post for document d is in   *)
(* flight, the date the notifier service holds for d is the closingDate of *)
(* the current version of d (both being dates).                            *)
(***************************************************************************)
C19_ClosesInFlight(d) ==
  {e \in BagToSet(outbox) : e.type = "document-closes" /\ e.ref = d}

C19_LastWriteWins ==
  \A d \in DocIds :
    (/\ DocumentExists(d)
     /\ Quiescent
     /\ C19_ClosesInFlight(d) = {}
     /\ CurrentVersionOf(d).content.closingDate # NoDate
     /\ scheduled[d] # NoDate)
      => scheduled[d] = CurrentVersionOf(d).content.closingDate

(***************************************************************************)
(* C20: requests served one at a time, posts answered, failed or in        *)
(* flight.  A step that is neither of a handler nor of the clock settles   *)
(* one post in flight: it takes that post out of the outbox, logs one line *)
(* for it and leaves the store, the handlers, the responses and the        *)
(* requests to come as they were; a failure is logged as an error and      *)
(* leaves the notifier service as it was.  A handler step only adds to the *)
(* outbox, and a handler in flight can always take its next step, whatever *)
(* is in flight, answered or failed.                                       *)
(***************************************************************************)
C20_NeverWaits ==
  \A s \in Slots : InFlight(s) => ENABLED Step(s)

C20_Step ==
  /\ (reqs' = reqs /\ now' = now) =>
       /\ UNCHANGED <<documents, versions, comments, likes, last, budget>>
       /\ \E payload \in BagToSet(outbox) :
            /\ outbox' = outbox (-) SetToBag({payload})
            /\ log' \in {[level |-> "info", payload |-> payload],
                         [level |-> "error", payload |-> payload]}
       /\ log'.level = "error" => scheduled' = scheduled
  /\ reqs' # reqs =>
       /\ outbox \sqsubseteq outbox'
       /\ UNCHANGED <<scheduled, log>>

C20_FireAndForget == []C20_NeverWaits /\ [][C20_Step]_vars

\* the post of a comment-resolved event has failed; the comment is resolved
\* and the request was answered OK
C20_Witness ==
  /\ log.level = "error" /\ log.payload.type = "comment-resolved"
  /\ last.op = "resolveComment" /\ last.res = "OK"
  /\ CommentExists(log.payload.ref) /\ comments[log.payload.ref].resolved
  /\ outbox = EmptyBag

(***************************************************************************)
(* C21: requests served one at a time, a pending store call may reject.    *)
(* An update or a comment-create that fails after its authorization check  *)
(* leaves documents, versions and comments as they were when it started.   *)
(* The failure changes nothing itself and restores nothing, and between    *)
(* the start and the failure only the handler has run: so the failing      *)
(* step leaves the three collections alone, and so does every step that    *)
(* leaves the handler suspended at a further store call, which may fail.   *)
(***************************************************************************)
C21_Step ==
  \A s \in Slots :
    (reqs[s].op \in {"putDocument", "createComment"} /\ Stepped(s)) =>
      /\ (~InFlight(s)' /\ last'.res = "InternalError") =>
           UNCHANGED <<documents, versions, comments>>
      /\ InFlight(s)' => UNCHANGED <<documents, versions, comments>>

C21_FailsAtomically == [][C21_Step]_vars

(***************************************************************************)
(* C22: requests served one at a time.  A handler whose request names a    *)
(* document that is not stored, or (resolve, reply, like) a comment that   *)
(* is not stored, changes nothing in the store and emits nothing at any of *)
(* its steps, and the response it sends is NotFound.                       *)
(***************************************************************************)
C22_NamesAbsent(s) ==
  \/ /\ reqs[s].op \in {"putDocument", "createComment", "resolveComment",
                        "replyComment", "likeComment"}
     /\ ~DocumentExists(reqs[s].id)
  \/ /\ reqs[s].op \in {"resolveComment", "replyComment", "likeComment"}
     /\ ~CommentExists(reqs[s].idComment)

C22_Step ==
  \A s \in Slots :
    (InFlight(s) /\ Stepped(s) /\ C22_NamesAbsent(s)) =>
      /\ UNCHANGED <<documents, versions, comments, likes, outbox>>
      /\ ~InFlight(s)' => last' = Response(s, "NotFound")

C22_AbsentIsNotFound == [][C22_Step]_vars

(***************************************************************************)
(* C23: requests and reads served one at a time.  The `closed` of the      *)
(* document that GET /documents/:id delivers is true iff the current       *)
(* version has a closingDate and the time of the delivery is that date or  *)
(* later.                                                                  *)
(***************************************************************************)
C23_Step ==
  \A s \in Slots :
    (/\ reqs[s].op = "getDocument" /\ Stepped(s)
     /\ ~InFlight(s)' /\ last'.res = "OK") =>
      /\ sent'.results # {}
      /\ \A r \in sent'.results :
           r.closed <=>
             /\ CurrentVersionOf(r._id).content.closingDate # NoDate
             /\ now >= CurrentVersionOf(r._id).content.closingDate

C23_ClosedFromTimeAlone == [][C23_Step]_vars

(***************************************************************************)
(* C24: requests and reads served one at a time.  Once an update has       *)
(* supplied `closed` for a document (the stored field is set: an update    *)
(* sets it to the value supplied, true), every response that delivers the  *)
(* document (get, the public listing, my-documents, the response of an     *)
(* update) carries the `closed` that its current version's closingDate     *)
(* and the time of the delivery give: closed when the date is past, not    *)
(* closed without a date or before it (either at the date itself).  A      *)
(* comment-create is refused as Closed only on such a date.                *)
(***************************************************************************)
\* an update has supplied `closed` for document d
C24_Supplied(d) == documents'[d].closed

C24_ClosingDate(d) ==
  versions'[documents'[d].currentVersion].content.closingDate

C24_Step ==
  \A s \in Slots :
    (InFlight(s) /\ Stepped(s) /\ ~InFlight(s)') =>
      /\ last'.res = "OK" =>
           \A r \in sent'.results :
             C24_Supplied(r._id) =>
               /\ (/\ C24_ClosingDate(r._id) # NoDate
                   /\ now > C24_ClosingDate(r._id)) => r.closed
               /\ r.closed => /\ C24_ClosingDate(r._id) # NoDate
                              /\ now >= C24_ClosingDate(r._id)
      /\ (reqs[s].op = "createComment" /\ last'.res = "Closed") =>
           /\ C24_ClosingDate(reqs[s].id) # NoDate
           /\ now >= C24_ClosingDate(reqs[s].id)

C24_ClosedNeverSupplied == [][C24_Step]_vars

(***************************************************************************)
(* C25: requests served one at a time.  A step that stores a document is   *)
(* a step of a create handler and stores it with the session user of that  *)
(* request as author, whatever author the body carries; no step removes a  *)
(* document or changes the author of a stored one.                         *)
(***************************************************************************)
C25_Step ==
  /\ Len(documents') >= Len(documents)
  /\ \A d \in 1..Len(documents) : documents'[d].author = documents[d].author
  /\ \A d \in (Len(documents) + 1)..Len(documents') :
       \E s \in Slots :
         /\ reqs[s].op = "postDocument" /\ Stepped(s)
         /\ documents'[d].author = reqs[s].user

C25_AuthorFixed == [][C25_Step]_vars

\* a document of user 2 has been published by an update and commented on
\* by user 1
C25_Witness ==
  \E d \in 1..Len(documents) :
    /\ documents[d].author = 2
    /\ documents[d].published
    /\ \E c \in CommentsOf(d) : comments[c].user = 1

(***************************************************************************)
(* C26: requests served one at a time.  The update handler rewrites        *)
(* decorations in one step, taken before it has created a version and      *)
(* never after: the step re-anchors the comments that the request names    *)
(* among those of the version current for the document (the one current    *)
(* when the update started), leaves every other comment and the versions   *)
(* as they were; no later step of the handler changes a comment.           *)
(***************************************************************************)
C26_Step ==
  \A s \in Slots :
    (reqs[s].op = "putDocument" /\ Stepped(s)) =>
      IF reqs[s].pc = "put_decorations"
      THEN /\ reqs[s].versionCreated = 0
           /\ versions' = versions /\ documents' = documents
           /\ Len(comments') = Len(comments)
           /\ \A c \in 1..Len(comments) :
                IF /\ c \in Range(reqs[s].body.decorations)
                   /\ comments[c].version = documents[reqs[s].id].currentVersion
                THEN comments'[c] = [comments[c] EXCEPT !.decoration = "moved"]
                ELSE comments'[c] = comments[c]
      ELSE /\ comments' = comments
           /\ reqs[s].pc \in {"put_version_create", "put_contributors",
                              "put_update", "put_version_update"}
                => reqs'[s].pc # "put_decorations"

C26_DecorationsBeforeVersion == [][C26_Step]_vars

\* an update with decorations and contributions has been served: the comment
\* it names is re-anchored and still of the first version, and the version
\* that merges it is current
C26_Witness ==
  /\ last.op = "putDocument" /\ last.res = "OK"
  /\ CurrentVersionOf(last.id).version = 2
  /\ \E c \in CommentsOf(last.id) :
       /\ c \in Range(CurrentVersionOf(last.id).contributions)
       /\ comments[c].decoration = "moved"
       /\ comments[c].version # documents[last.id].currentVersion

(***************************************************************************)
(* C27: requests and reads served one at a time.  GET /documents/:id on a  *)
(* stored document changes nothing.  On a draft asked for by anyone but    *)
(* its author, a session of another user or none, it answers Forbidden     *)
(* with no document in the body and does nothing else; otherwise it        *)
(* answers OK with that document and isAuthor, which is true exactly for   *)
(* the author.                                                             *)
(***************************************************************************)
C27_Draft(s) ==
  /\ ~documents[reqs[s].id].published
  /\ reqs[s].user # documents[reqs[s].id].author

C27_Step ==
  \A s \in Slots :
    (/\ reqs[s].op = "getDocument" /\ Stepped(s)
     /\ DocumentExists(reqs[s].id)) =>
      /\ UNCHANGED <<documents, versions, comments, likes, outbox>>
      /\ IF C27_Draft(s)
         THEN /\ ~InFlight(s)'
              /\ last' = Response(s, "Forbidden")
              /\ sent' = NoSent
         ELSE ~InFlight(s)' =>
                /\ last' = Response(s, "OK")
                /\ {r._id : r \in sent'.results} = {reqs[s].id}
                /\ sent'.isAuthor <=>
                     reqs[s].user = documents[reqs[s].id].author

C27_DraftOnlyForAuthor == [][C27_Step]_vars

\* another user has asked for a draft and has been refused
C27_Witness ==
  /\ last.op = "getDocument" /\ last.res = "Forbidden"
  /\ last.user \in Users
  /\ DocumentExists(last.id)
  /\ ~documents[last.id].published
  /\ documents[last.id].author # last.user
  /\ sent = NoSent

(***************************************************************************)
(* C28: create requests interleaved.  In every state the number of         *)
(* documents of each author is at most documentCreationLimit.              *)
(***************************************************************************)
C28_LimitUnderInterleaving ==
  \A u \in Users : Cardinality(AuthorDocuments(u)) <= documentCreationLimit

(***************************************************************************)
(* C29: requests interleaved.  A step that stores a comment stores it with *)
(* a version of the comment's own document, the one that is the current    *)
(* version of that document at that step; no step changes the document or  *)
(* the version of a stored comment.                                        *)
(***************************************************************************)
C29_Step ==
  /\ Len(comments') >= Len(comments)
  /\ \A c \in 1..Len(comments) :
       /\ comments'[c].document = comments[c].document
       /\ comments'[c].version = comments[c].version
  /\ \A c \in (Len(comments) + 1)..Len(comments') :
       /\ DocumentExists(comments'[c].document)
       /\ comments'[c].version \in VersionsOf(comments'[c].document)
       /\ comments'[c].version = documents[comments'[c].document].currentVersion

C29_CommentOnCurrentVersion == [][C29_Step]_vars

(***************************************************************************)
(* C30: requests served one at a time, a pending store call may reject.    *)
(* A step that emits a comment-contribution event for a comment leaves     *)
(* some document with a current version that merges the comment; a step    *)
(* that emits a comment-resolved event for a stored comment leaves that    *)
(* comment resolved.                                                       *)
(***************************************************************************)
C30_Merged(c) ==
  \E d \in 1..Len(documents') :
    c \in Range(versions'[documents'[d].currentVersion].contributions)

C30_Step ==
  \A e \in BagToSet(outbox') :
    CopiesIn(e, outbox') > CopiesIn(e, outbox) =>
      /\ e.type = "comment-contribution" => C30_Merged(e.ref)
      /\ (e.type = "comment-resolved" /\ CommentExists(e.ref)) =>
           comments'[e.ref].resolved

C30_EventsAfterCommit == [][C30_Step]_vars

=============================================================================
